---- MODULE Spec2Model ----
(***************************************************************************)
(* Model of the tradeX trading decision and execution engine:              *)
(*   - SimulatedBroker (src/src/simulation/broker.py), the ledger;         *)
(*   - Guardrail (src/src/security/guardrails.py), the risk gate.          *)
(*                                                                         *)
(* Money is counted in whole multiples of 1/Unit of a krone, so that the   *)
(* commission (0.001 of the notional) and the slippage (0.0005 of the      *)
(* notional) of every trade at a whole-krone price are exact integers.     *)
(* Values the code obtains by a division (avg_price, the realised result)  *)
(* are exact fractions [num, den] in lowest terms.                         *)
(***************************************************************************)
EXTENDS Integers, Sequences, FiniteSets, TLC

(* ---------------------------- bounds ----------------------------------- *)

\* Number of execute_trade calls made on one ledger.
MaxCalls == 2
\* Largest quantity of one call (quantities are 0..MaxQty).
MaxQty == 2
\* Largest price of one call, in kroner (prices are 0..MaxPrice kroner).
MaxPrice == 2
\* Largest initial cash endowment, in kroner.
MaxCash == 4

(* ------------------------ program constants ---------------------------- *)

\* Money resolution: 1 krone = Unit money units (0.0005 = 5 / Unit).
Unit == 10000
\* commission = cost * 0.001, as a number of Units per Unit of cost.
CommissionRate == 10
\* slippage = cost * 0.0005, as a number of Units per Unit of cost.
SlippageRate == 5

Symbols == {"AAPL", "MSFT"}
Sides == {"buy", "sell", "hold"}
Quantities == 0..MaxQty
Prices == {p * Unit : p \in 0..MaxPrice}

DefaultCategory == "Unknown"
DefaultTrigger == "Manual"
\* decision_matrix=None, stored as `decision_matrix or {}`: the empty mapping.
EmptyMatrix == <<>>

(* ----------------------- exact fractions ------------------------------- *)

Abs(x) == IF x < 0 THEN -x ELSE x

RECURSIVE GCD(_, _)
GCD(a, b) == IF b = 0 THEN a ELSE GCD(b, a % b)

\* The fraction n / d (d > 0) in lowest terms.
Rat(n, d) ==
    LET g == GCD(Abs(n), d)
    IN  [num |-> n \div g, den |-> d \div g]

RatOfInt(n) == [num |-> n, den |-> 1]

RatEq(a, b) == a.num * b.den = b.num * a.den

\* a > b, for fractions with positive denominators
RatGt(a, b) == a.num * b.den > b.num * a.den

(* ------------------------- ledger state -------------------------------- *)

VARIABLES
    initial_cash,       \* SimulatedBroker.initial_cash
    purse,              \* SimulatedBroker.purse
    positions,          \* SimulatedBroker.positions: symbol -> row
    history,            \* SimulatedBroker.history: sequence of trade records
    total_commission,   \* SimulatedBroker.total_commission
    total_slippage,     \* SimulatedBroker.total_slippage
    clock,              \* number of execute_trade calls so far (the timestamp)
    call,               \* arguments of the last execute_trade call
    ret,                \* outcome of the last execute_trade call
    pre                 \* ledger fields as they were when the last call began

ledgerVars == <<initial_cash, purse, positions, history, total_commission,
                total_slippage, clock, call, ret, pre>>

(* ------------------------ guardrail state ------------------------------ *)

VARIABLES
    peak_value,         \* Guardrail.peak_value
    g_call,             \* arguments of the last check_trade call
    g_ret,              \* (allowed, reason) returned by the last check_trade
    g_pre               \* peak_value as it was when the last call began

guardVars == <<peak_value, g_call, g_ret, g_pre>>

(* --------------------- decision cycle state (main) --------------------- *)

VARIABLES
    pc,                 \* where main() is: "start", "loop", "done" or "raised"
    main_exc,           \* the exception main() ended with ("" when none)
    empire_analysis,    \* main's empire_analysis (the fields main reads)
    sentiment,          \* mood / 100.0, the sentiment_score given to the oracle
    promising,          \* the symbols of list_promising_assets, in order
    idx,                \* number of rows of promising already handled
    claude_active,      \* ClaudeOllamaEngine.active
    cyc                 \* what the last loop iteration computed

cycleVars == <<pc, main_exc, empire_analysis, sentiment, promising, idx,
               claude_active, cyc>>

(* ------------------ regime classifier (MedallionEngine) ---------------- *)

VARIABLES
    series,             \* the price series given to fit_regime_detection
    hmm_model,          \* MedallionEngine.hmm_model: "None" or "GaussianHMM"
    fit,                \* outcome of the last fit_regime_detection call
    fit_prev            \* outcome of the call before the last

regimeVars == <<series, hmm_model, fit, fit_prev>>

(* --------------- continuous training loop and valuation ---------------- *)

VARIABLES
    loop_pc,            \* where continuous_training.main() is: "top" of the
                        \* while, "running" a pass, "sleeping" the hour,
                        \* "cooldown" after an error, or "terminated"
    iteration,          \* main's local `iteration`
    last_log,           \* the last line written to the process log
    caught,             \* the exception the loop caught last ("" when none)
    valuation           \* outcome of the last get_portfolio_value call made
                        \* since the last trade

loopVars == <<loop_pc, iteration, last_log, caught>>

vars == <<ledgerVars, guardVars, cycleVars, regimeVars, loopVars, valuation>>

NoCall == [symbol |-> "", quantity |-> 0, price |-> 0, side |-> "",
           category |-> "", trigger_strategy |-> ""]

\* Outcomes of execute_trade: a returned (bool, str) pair or a raised exception.
Returned(ok, msg) == [raised |-> FALSE, ok |-> ok, msg |-> msg]
Raised(exc) == [raised |-> TRUE, ok |-> FALSE, msg |-> exc]
NoRet == [raised |-> FALSE, ok |-> FALSE, msg |-> ""]

Success == Returned(TRUE, "Success")
InsufficientFundsRet == Returned(FALSE, "Insufficient funds")
InsufficientHoldingsRet == Returned(FALSE, "Insufficient holdings")
ZeroDivisionError == Raised("ZeroDivisionError")

NoPrices == <<>>
NoValuation == [called |-> FALSE, current_prices |-> NoPrices,
                prices_after |-> NoPrices, value |-> RatOfInt(0)]

Snapshot == [purse |-> purse, positions |-> positions, history |-> history,
             total_commission |-> total_commission,
             total_slippage |-> total_slippage]

InitialPurses == {0, Unit + (Unit * (CommissionRate + SlippageRate)) \div Unit,
                  MaxCash * Unit}

LedgerInit ==
    /\ initial_cash \in InitialPurses
    /\ purse = initial_cash
    /\ positions = <<>>
    /\ history = <<>>
    /\ total_commission = 0
    /\ total_slippage = 0
    /\ clock = 0
    /\ call = NoCall
    /\ ret = NoRet
    /\ pre = Snapshot
    /\ valuation = NoValuation

(* ------------------------ execute_trade -------------------------------- *)

Commission(cost) == (cost * CommissionRate) \div Unit

Slippage(cost) == (cost * SlippageRate) \div Unit

\* `total_cost = cost + total_fees`
\* (faulty variant: the fees are left out)
TotalCost_NoFees(cost, total_fees) == cost
TotalCost(cost, total_fees) == cost + total_fees

\* `if total_cost > self.purse: return False, "Insufficient funds"`
\* (faulty variants: >= for >, and the comparison reversed)
InsufficientFunds_AtBoundary(total_cost, cash) == total_cost >= cash
InsufficientFunds_Reversed(total_cost, cash) == total_cost < cash
InsufficientFunds(total_cost, cash) == total_cost > cash

\* `"Medallion" in trigger_strategy`, `"Claude" in trigger_strategy`
MentionsMedallion(trigger) == trigger \in {"Medallion Regime-Trigger"}
MentionsClaude(trigger) == trigger \in {"Claude Sentiment-Trigger"}

\* Lines 42-44 of broker.py.
\* (faulty variant: the Medallion test is left out)
Horizon_NoMedallion(trigger) ==
    IF MentionsClaude(trigger) THEN "Lang (3-6 mnd)"
    ELSE "Mellom (1-4 uker)"
Horizon(trigger) ==
    IF MentionsClaude(trigger) THEN "Lang (3-6 mnd)"
    ELSE IF MentionsMedallion(trigger) THEN "Kort (1-5 dager)"
    ELSE "Mellom (1-4 uker)"

NewPosition(category, trigger, matrix) ==
    [qty |-> 0, avg_price |-> RatOfInt(0), category |-> category,
     trigger_strategy |-> trigger, decision_matrix |-> matrix,
     expected_horizon |-> Horizon(trigger)]

\* `((pos['qty'] * pos['avg_price']) + cost) / new_qty`, for new_qty > 0
\* (faulty variant: the old average is not weighted by the old quantity)
NewAvgPrice_Unweighted(pos, cost, new_qty) ==
    Rat(pos.avg_price.num + cost * pos.avg_price.den,
        pos.avg_price.den * new_qty)
NewAvgPrice(pos, cost, new_qty) ==
    Rat(pos.qty * pos.avg_price.num + cost * pos.avg_price.den,
        pos.avg_price.den * new_qty)

\* `symbol not in self.positions or self.positions[symbol]['qty'] < quantity`
\* (faulty variant: the held quantity is not compared)
InsufficientHoldings_AbsentOnly(held, symbol, quantity) ==
    symbol \notin DOMAIN held
InsufficientHoldings(held, symbol, quantity) ==
    \/ symbol \notin DOMAIN held
    \/ held[symbol].qty < quantity

\* `(price - pos['avg_price']) * quantity - total_fees`
RealizedGainLoss(pos, price, quantity, total_fees) ==
    Rat((price * pos.avg_price.den - pos.avg_price.num) * quantity
            - total_fees * pos.avg_price.den,
        pos.avg_price.den)

\* `self.purse += (cost - total_fees)`
\* (faulty variant: the fees are not taken off the proceeds)
SellProceeds_Gross(cost, total_fees) == cost
SellProceeds(cost, total_fees) == cost - total_fees

\* `pos['qty'] -= quantity; if pos['qty'] <= 0: del self.positions[symbol]`
\* (faulty variant: < for <=, so a row of quantity 0 stays)
ReducePosition_KeepsZero(held, symbol, quantity) ==
    LET left == held[symbol].qty - quantity
    IN  IF left < 0
        THEN [s \in DOMAIN held \ {symbol} |-> held[s]]
        ELSE [held EXCEPT ![symbol].qty = left]
ReducePosition(held, symbol, quantity) ==
    LET left == held[symbol].qty - quantity
    IN  IF left <= 0
        THEN [s \in DOMAIN held \ {symbol} |-> held[s]]
        ELSE [held EXCEPT ![symbol].qty = left]

TradeRecord(timestamp, symbol, side, quantity, price, result, category, commission, slippage, total_fees, trigger, matrix) ==
    [timestamp |-> timestamp, symbol |-> symbol, side |-> side,
     qty |-> quantity, price |-> price, result |-> result,
     category |-> category, commission |-> commission,
     slippage |-> slippage, total_fees |-> total_fees,
     trigger |-> trigger, decision_matrix |-> matrix]

\* `self.history.append({...})`
\* (faulty variant: the record is inserted at the front)
AppendRecord_Front(hist, record) == <<record>> \o hist
AppendRecord(hist, record) == Append(hist, record)

\* The exception `... / new_qty` raises when new_qty is 0.
DivisionRaises(divisor) == divisor = 0

execute_trade(symbol, quantity, price, category, side, trigger_strategy, decision_matrix) ==
    LET cost == quantity * price
        commission == Commission(cost)
        slippage == Slippage(cost)
        total_fees == commission + slippage
        timestamp == clock + 1
        total_cost == TotalCost(cost, total_fees)
        opened == IF symbol \in DOMAIN positions
                  THEN positions
                  ELSE positions @@ (symbol :> NewPosition(category,
                                         trigger_strategy, decision_matrix))
        new_qty == opened[symbol].qty + quantity
        Record(result) ==
            TradeRecord(timestamp, symbol, side, quantity, price, result,
                        category, commission, slippage, total_fees,
                        trigger_strategy, decision_matrix)
    IN  /\ clock < MaxCalls
        /\ clock' = clock + 1
        /\ call' = [symbol |-> symbol, quantity |-> quantity, price |-> price,
                    side |-> side, category |-> category,
                    trigger_strategy |-> trigger_strategy]
        /\ pre' = Snapshot
        /\ initial_cash' = initial_cash
        /\ total_commission' = total_commission + commission
        /\ total_slippage' = total_slippage + slippage
        /\ IF side = "buy"
           THEN IF InsufficientFunds(total_cost, purse)
                THEN /\ ret' = InsufficientFundsRet
                     /\ UNCHANGED <<purse, positions, history>>
                ELSE /\ purse' = purse - total_cost
                     /\ IF DivisionRaises(new_qty)
                        THEN \* the division by new_qty raises; the row
                             \* created above stays in the map
                             /\ positions' = opened
                             /\ history' = history
                             /\ ret' = ZeroDivisionError
                        ELSE /\ positions' =
                                  [opened EXCEPT
                                     ![symbol].avg_price =
                                         NewAvgPrice(opened[symbol], cost, new_qty),
                                     ![symbol].qty = new_qty]
                             /\ history' = AppendRecord(history, Record(RatOfInt(0)))
                             /\ ret' = Success
           ELSE IF side = "sell"
           THEN IF InsufficientHoldings(positions, symbol, quantity)
                THEN /\ ret' = InsufficientHoldingsRet
                     /\ UNCHANGED <<purse, positions, history>>
                ELSE /\ purse' = purse + SellProceeds(cost, total_fees)
                     /\ positions' = ReducePosition(positions, symbol, quantity)
                     /\ history' = AppendRecord(history,
                            Record(RealizedGainLoss(positions[symbol], price,
                                                    quantity, total_fees)))
                     /\ ret' = Success
           ELSE /\ history' = AppendRecord(history, Record(RatOfInt(0)))
                /\ ret' = Success
                /\ UNCHANGED <<purse, positions>>

ExecuteTrade ==
    /\ \E symbol \in Symbols, quantity \in Quantities, price \in Prices,
          side \in Sides :
           execute_trade(symbol, quantity, price, DefaultCategory, side,
                         DefaultTrigger, EmptyMatrix)
    /\ valuation' = NoValuation
    /\ UNCHANGED <<guardVars, cycleVars, regimeVars, loopVars>>

\* The calls of a trading session: buys and sells of a positive quantity at a
\* positive price.
PositiveTrade ==
    /\ \E symbol \in Symbols, quantity \in Quantities \ {0},
          price \in Prices \ {0}, side \in {"buy", "sell"} :
           execute_trade(symbol, quantity, price, DefaultCategory, side,
                         DefaultTrigger, EmptyMatrix)
    /\ valuation' = NoValuation
    /\ UNCHANGED <<guardVars, cycleVars, regimeVars, loopVars>>

(* ---------------------- get_portfolio_value ---------------------------- *)

RatAdd(a, b) == Rat(a.num * b.den + b.num * a.den, a.den * b.den)
RatScale(k, a) == Rat(k * a.num, a.den)

\* Prices of a current_prices map: 1 krone and one above every trade price.
MarkPrices == {Unit, (MaxPrice + 1) * Unit}
\* The current_prices maps tried: every map of some of the symbols.
PriceMaps == UNION {[S -> MarkPrices] : S \in SUBSET Symbols}

\* `price = current_prices.get(s, pos['avg_price'])`
\* (faulty variant: the price map is not consulted)
MarkPrice_AvgOnly(current_prices, s, pos) == pos.avg_price
MarkPrice(current_prices, s, pos) ==
    IF s \in DOMAIN current_prices
    THEN RatOfInt(current_prices[s]) ELSE pos.avg_price

\* The loop of lines 15-18 over the rows `todo` of the positions map.
RECURSIVE HoldingsValue(_, _, _)
HoldingsValue(held, current_prices, todo) ==
    IF todo = {}
    THEN RatOfInt(0)
    ELSE LET s == CHOOSE x \in todo : TRUE
         IN  RatAdd(RatScale(held[s].qty, MarkPrice(current_prices, s, held[s])),
                    HoldingsValue(held, current_prices, todo \ {s}))

\* `return self.purse + holdings_value`
get_portfolio_value(current_prices) ==
    RatAdd(RatOfInt(purse),
           HoldingsValue(positions, current_prices, DOMAIN positions))

GetPortfolioValue ==
    /\ \E current_prices \in PriceMaps :
          valuation' = [called |-> TRUE, current_prices |-> current_prices,
                        prices_after |-> current_prices,
                        value |-> get_portfolio_value(current_prices)]
    /\ UNCHANGED <<ledgerVars, guardVars, cycleVars, regimeVars, loopVars>>

(* --------------------------- Guardrail --------------------------------- *)

\* Guardrail(max_drawdown_pct=0.10, ...), in percent
MaxDrawdownPct == 10
\* Guardrail(max_position_size_pct=0.05, ...), in percent
MaxPositionSizePct == 5
\* restricted_assets of the guardrail under test
RestrictedAssets == {"RESTRICTED_CO"}

GuardSymbols == {"AAPL", "RESTRICTED_CO"}

\* Portfolio values tried: 0, 10000, ..., MaxPortfolioSteps * 10000 kroner, and
\* the 11%-drawdown value 89000 of the guardrail's own test.
MaxPortfolioSteps == 11
PortfolioValues == {k * 10000 : k \in 0..MaxPortfolioSteps} \cup {89000}
TradeCosts == {0, 100, 4500, 5000, 6000}

\* The reasons check_trade returns. The size reason also prints trade_cost and
\* the restricted reason the symbol; both are arguments of the call (g_call).
DrawdownReason == "GUARDRAIL: Max drawdown of 10.0% exceeded. Trading halted."
SizeReason == "GUARDRAIL: Trade size {trade_cost:.2f} exceeds 5.0% of portfolio limit."
RestrictedReason == "GUARDRAIL: Asset {symbol} is on the restricted list."
ApprovedReason == "Trade approved by Guardrails."

NoGuardCall == [portfolio_value |-> 0, cash |-> 0, trade_cost |-> 0, symbol |-> ""]
NoGuardRet == [ok |-> FALSE, reason |-> ""]

GuardInit ==
    /\ peak_value = 0
    /\ g_call = NoGuardCall
    /\ g_ret = NoGuardRet
    /\ g_pre = 0

\* `if portfolio_value > self.peak_value: self.peak_value = portfolio_value`
\* (faulty variant: the peak follows the latest value)
UpdatePeak_Latest(peak, portfolio_value) == portfolio_value
UpdatePeak(peak, portfolio_value) ==
    IF portfolio_value > peak THEN portfolio_value ELSE peak

\* `(self.peak_value - portfolio_value) / self.peak_value if self.peak_value > 0 else 0`
CurrentDrawdown(peak, portfolio_value) ==
    IF peak > 0 THEN Rat(peak - portfolio_value, peak) ELSE RatOfInt(0)

\* `if current_drawdown > self.max_drawdown_pct`
\* (faulty variant: >= for >)
DrawdownExceeded_AtBoundary(peak, portfolio_value) ==
    ~RatGt(Rat(MaxDrawdownPct, 100), CurrentDrawdown(peak, portfolio_value))
DrawdownExceeded(peak, portfolio_value) ==
    RatGt(CurrentDrawdown(peak, portfolio_value), Rat(MaxDrawdownPct, 100))

\* `if trade_cost > (portfolio_value * self.max_position_size_pct)`
\* (faulty variant: >= for >)
PositionTooLarge_AtBoundary(trade_cost, portfolio_value) ==
    ~RatGt(Rat(portfolio_value * MaxPositionSizePct, 100), RatOfInt(trade_cost))
PositionTooLarge(trade_cost, portfolio_value) ==
    RatGt(RatOfInt(trade_cost), Rat(portfolio_value * MaxPositionSizePct, 100))

\* `if symbol in self.restricted_assets`
\* (faulty variant: the restricted list is not consulted)
Restricted_Never(symbol) == FALSE
Restricted(symbol) == symbol \in RestrictedAssets

\* Steps 2 to 4 of check_trade and its approval, in the order of the code.
\* (faulty variant: the size check runs before the drawdown check and the
\* restriction check before the size check)
Verdict_Reordered(peak, portfolio_value, trade_cost, symbol) ==
    IF Restricted(symbol)
    THEN [ok |-> FALSE, reason |-> RestrictedReason]
    ELSE IF PositionTooLarge(trade_cost, portfolio_value)
    THEN [ok |-> FALSE, reason |-> SizeReason]
    ELSE IF DrawdownExceeded(peak, portfolio_value)
    THEN [ok |-> FALSE, reason |-> DrawdownReason]
    ELSE [ok |-> TRUE, reason |-> ApprovedReason]
Verdict(peak, portfolio_value, trade_cost, symbol) ==
    IF DrawdownExceeded(peak, portfolio_value)
    THEN [ok |-> FALSE, reason |-> DrawdownReason]
    ELSE IF PositionTooLarge(trade_cost, portfolio_value)
    THEN [ok |-> FALSE, reason |-> SizeReason]
    ELSE IF Restricted(symbol)
    THEN [ok |-> FALSE, reason |-> RestrictedReason]
    ELSE [ok |-> TRUE, reason |-> ApprovedReason]

check_trade(portfolio_value, cash, trade_cost, symbol) ==
    LET peak == UpdatePeak(peak_value, portfolio_value)
    IN  /\ g_pre' = peak_value
        /\ g_call' = [portfolio_value |-> portfolio_value, cash |-> cash,
                      trade_cost |-> trade_cost, symbol |-> symbol]
        /\ peak_value' = peak
        /\ g_ret' = Verdict(peak, portfolio_value, trade_cost, symbol)

CheckTrade ==
    /\ \E portfolio_value \in PortfolioValues, trade_cost \in TradeCosts,
          symbol \in GuardSymbols :
           check_trade(portfolio_value, portfolio_value, trade_cost, symbol)
    /\ UNCHANGED <<ledgerVars, cycleVars, regimeVars, loopVars, valuation>>

(* --------------- ClaudeOllamaEngine.analyze_market_state --------------- *)

Votes == {"BUY", "SELL", "HOLD"}

\* A decoded JSON value: an object with its fields, or some other value.
JsonObject(fields) == [kind |-> "object", fields |-> fields]
JsonOther == [kind |-> "array", fields |-> <<>>]

\* sentiment_score values tried, as exact fractions: around the +-0.05 action
\* thresholds and beyond the 0.2 confidence threshold.
SentimentScores == {Rat(n, 100) : n \in {-30, -5, 5, 6}}

\* `abs(sentiment_score)`
RatAbs(a) == [num |-> Abs(a.num), den |-> a.den]

\* `0.6 if abs(sentiment_score) > 0.2 else 0.4`
HeuristicConfidence(score) ==
    IF RatGt(RatAbs(score), Rat(2, 10)) THEN Rat(6, 10) ELSE Rat(4, 10)

\* `if sentiment_score > 0.05 ... elif sentiment_score < -0.05 ... else`
HeuristicAction(score) ==
    IF RatGt(score, Rat(5, 100)) THEN "BUY"
    ELSE IF RatGt(Rat(-5, 100), score) THEN "SELL"
    ELSE "HOLD"

HeuristicReasoning == "Heuristic fallback (Ollama offline or model not loaded)."

_heuristic(score) ==
    JsonObject([confidence |-> HeuristicConfidence(score),
                action |-> HeuristicAction(score),
                reasoning |-> HeuristicReasoning])

\* What _check_ollama can answer when analyze_market_state re-checks (it is
\* called only while the engine is not active).
Rechecks(active) == IF active THEN {TRUE} ELSE BOOLEAN

\* What the inference request can come to: the request fails (connection,
\* timeout, HTTP status), the reply cannot be decoded (no message content, not
\* JSON), or the reply decodes to a JSON value.
LlmObjects ==
    {[confidence |-> Rat(9, 10), action |-> a, reasoning |-> "llm"] :
        a \in Votes \cup {"STRONG_BUY"}}
    \cup {[confidence |-> Rat(9, 10), reasoning |-> "llm"]}
LlmReplies == {JsonObject(o) : o \in LlmObjects} \cup {JsonOther}
InferenceOutcomes ==
    {[kind |-> "request_failed", json |-> JsonOther],
     [kind |-> "parse_failed", json |-> JsonOther]}
    \cup {[kind |-> "reply", json |-> r] : r \in LlmReplies}
\* No request is made while the engine is not active.
NoInference == [kind |-> "none", json |-> JsonOther]
Inferences(now_active) == IF now_active THEN InferenceOutcomes ELSE {NoInference}

\* `if not self.active: self.active = self._check_ollama()`
ActiveAfterRecheck(active, recheck) == IF ~active THEN recheck ELSE active

\* `except Exception as exc: ... return self._heuristic(sentiment_score)`
\* (faulty variant: a failed request is not caught)
InferenceCaught_ParseOnly(outcome) == outcome.kind = "parse_failed"
InferenceCaught(outcome) == outcome.kind \in {"request_failed", "parse_failed"}

\* analyze_market_state: the engine's new `active`, the path taken and what
\* the caller gets (a returned value, or the exception that escapes).
analyze_market_state(active, recheck, outcome, score) ==
    LET now_active == ActiveAfterRecheck(active, recheck)
    IN  IF ~now_active
        THEN [active |-> now_active, path |-> "offline", raised |-> FALSE,
              result |-> _heuristic(score)]
        ELSE IF outcome.kind = "reply"
        THEN [active |-> now_active, path |-> "reply", raised |-> FALSE,
              result |-> outcome.json]
        ELSE IF InferenceCaught(outcome)
        THEN [active |-> now_active, path |-> outcome.kind, raised |-> FALSE,
              result |-> _heuristic(score)]
        ELSE [active |-> now_active, path |-> outcome.kind, raised |-> TRUE,
              result |-> JsonOther]

(* ------------------------------ main ----------------------------------- *)

\* Labels fit_regime_detection returns.
Regimes == {"Stable_Growth", "Neutral_Choppy", "High_Risk_Crash"}

\* The volatility_regime values of the empire analysis: the four the prompt
\* asks for, one the LLM may invent, and an analysis without the key.
VolRegimes == {"LOW", "MODERATE", "HIGH", "EXTREME", "SEVERE"}
EmpireAnalyses ==
    {[volatility_regime |-> v, source |-> "analysis"] : v \in VolRegimes}
    \cup {[source |-> "analysis"]}

\* The rows of list_promising_assets tried (one symbol, one symbol twice, two
\* symbols).
PromisingLists == {<<"AAPL">>, <<"AAPL", "AAPL">>, <<"AAPL", "MSFT">>}
\* Last closing prices tried: 1 krone and the largest price.
CyclePrices == {Unit, MaxPrice * Unit}
CycleCategory == "STOCKS"

TriggerMajority == "Konsensus Flertall"
TriggerMedallion == "Medallion Regime-Trigger"
TriggerClaude == "Claude Sentiment-Trigger"

NoMatrix == <<>>
NoJson == JsonOther
NoCyc == [symbol |-> "", skipped |-> TRUE, price |-> 0, path |-> "",
          claude_dec |-> NoJson, matrix |-> NoMatrix, required_votes |-> 0,
          buy_votes |-> 0, proposed |-> FALSE, trigger |-> ""]

CycleIdle ==
    /\ pc = "start"
    /\ main_exc = ""
    /\ empire_analysis = [source |-> ""]
    /\ sentiment = RatOfInt(0)
    /\ promising = <<>>
    /\ idx = 0
    /\ claude_active = FALSE
    /\ cyc = NoCyc

\* `"BUY" if regime == "Stable_Growth" else "HOLD"`
MedallionVote(regime) == IF regime = "Stable_Growth" THEN "BUY" ELSE "HOLD"

\* `"BUY" if random.random() > 0.4 else "HOLD"`
AlphaVotes == {"BUY", "HOLD"}
\* `"HOLD" if random.random() > 0.3 else "SELL"`
GammaVotes == {"HOLD", "SELL"}

DecisionMatrix(claude, medallion, alpha, gamma) ==
    [Claude |-> claude, Medallion |-> medallion, Alpha |-> alpha,
     Gamma |-> gamma]

\* `empire_analysis.get("volatility_regime", "MODERATE")`
VolRegime(analysis) ==
    IF "volatility_regime" \in DOMAIN analysis
    THEN analysis.volatility_regime ELSE "MODERATE"

\* `required_votes = 3 if vol_regime in ("HIGH", "EXTREME") else 2`
\* (faulty variant: EXTREME is not in the tuple)
RequiredVotes_HighOnly(vol_regime) == IF vol_regime \in {"HIGH"} THEN 3 ELSE 2
RequiredVotes(vol_regime) ==
    IF vol_regime \in {"HIGH", "EXTREME"} THEN 3 ELSE 2

\* `len([v for v in decision_matrix.values() if v == "BUY"])`
BuyVotes(matrix) == Cardinality({k \in DOMAIN matrix : matrix[k] = "BUY"})

\* `if buy_votes >= required_votes and symbol not in broker.positions`
\* (faulty variant: > for >=)
ProposesBuy_Strict(buy_votes, required_votes, symbol, held) ==
    buy_votes > required_votes /\ symbol \notin DOMAIN held
ProposesBuy(buy_votes, required_votes, symbol, held) ==
    buy_votes >= required_votes /\ symbol \notin DOMAIN held

\* The trigger chosen at main.py lines 78-80.
\* (faulty variant: the Claude test overrides the Medallion test)
Trigger_ClaudeFirst(matrix) ==
    IF matrix.Claude = "BUY" THEN TriggerClaude
    ELSE IF matrix.Medallion = "BUY" THEN TriggerMedallion
    ELSE TriggerMajority
Trigger(matrix) ==
    IF matrix.Medallion = "BUY" THEN TriggerMedallion
    ELSE IF matrix.Claude = "BUY" THEN TriggerClaude
    ELSE TriggerMajority

MainRaises(exc) ==
    /\ pc' = "raised"
    /\ main_exc' = exc

\* main.py lines 19-39: the set-up, the empire analysis and its print (which
\* indexes empire_analysis['volatility_regime']), the mood and the candidates.
MainSetup ==
    /\ pc = "start"
    /\ claude_active' \in BOOLEAN
    /\ \E analysis \in EmpireAnalyses :
        /\ empire_analysis' = analysis
        /\ IF "volatility_regime" \notin DOMAIN analysis
           THEN /\ MainRaises("KeyError")
                /\ UNCHANGED <<sentiment, promising>>
           ELSE /\ pc' = "loop"
                /\ sentiment' \in SentimentScores
                /\ promising' \in PromisingLists
                /\ UNCHANGED main_exc
    /\ UNCHANGED <<idx, cyc, ledgerVars, guardVars, regimeVars, loopVars,
                   valuation>>

\* One row of the loop whose data is empty: `if data.empty: continue`.
SkipSymbol ==
    /\ pc = "loop"
    /\ idx < Len(promising)
    /\ idx' = idx + 1
    /\ cyc' = [NoCyc EXCEPT !.symbol = promising[idx + 1]]
    /\ UNCHANGED <<pc, main_exc, empire_analysis, sentiment, promising,
                   claude_active, ledgerVars, guardVars, regimeVars,
                   loopVars, valuation>>

\* One row of the loop with data: main.py lines 47-89.
EvaluateSymbol ==
    /\ pc = "loop"
    /\ idx < Len(promising)
    /\ idx' = idx + 1
    /\ \E price \in CyclePrices, recheck \in Rechecks(claude_active),
          regime \in Regimes, alpha_dec \in AlphaVotes,
          gamma_dec \in GammaVotes :
       \E outcome \in Inferences(ActiveAfterRecheck(claude_active, recheck)) :
        LET symbol == promising[idx + 1]
            claude == analyze_market_state(claude_active, recheck, outcome,
                                           sentiment)
            claude_dec == claude.result
            medallion_dec == MedallionVote(regime)
            seen == [NoCyc EXCEPT !.symbol = symbol, !.skipped = FALSE,
                                  !.price = price, !.path = claude.path,
                                  !.claude_dec = claude_dec]
        IN  /\ claude_active' = claude.active
            /\ IF claude.raised
               THEN /\ MainRaises("RequestException")
                    /\ cyc' = seen
                    /\ UNCHANGED ledgerVars
               ELSE IF claude_dec.kind # "object"
               THEN \* claude_dec['action'] on a value that is no dict
                    /\ MainRaises("TypeError")
                    /\ cyc' = seen
                    /\ UNCHANGED ledgerVars
               ELSE IF "action" \notin DOMAIN claude_dec.fields
               THEN \* claude_dec['action'] on a dict without the key
                    /\ MainRaises("KeyError")
                    /\ cyc' = seen
                    /\ UNCHANGED ledgerVars
               ELSE LET decision_matrix ==
                            DecisionMatrix(claude_dec.fields.action,
                                           medallion_dec, alpha_dec, gamma_dec)
                        required_votes == RequiredVotes(VolRegime(empire_analysis))
                        buy_votes == BuyVotes(decision_matrix)
                        proposed == ProposesBuy(buy_votes, required_votes,
                                                symbol, positions)
                        trigger == Trigger(decision_matrix)
                    IN  /\ UNCHANGED <<pc, main_exc>>
                        /\ cyc' = [seen EXCEPT
                                     !.matrix = decision_matrix,
                                     !.required_votes = required_votes,
                                     !.buy_votes = buy_votes,
                                     !.proposed = proposed,
                                     !.trigger = IF proposed THEN trigger ELSE ""]
                        /\ IF proposed
                           THEN execute_trade(symbol, 1, price, CycleCategory,
                                              "buy", trigger, decision_matrix)
                           ELSE UNCHANGED ledgerVars
    /\ UNCHANGED <<empire_analysis, sentiment, promising, guardVars,
                   regimeVars, loopVars, valuation>>

\* main.py lines 91-120: the loop is over; the state is saved and reported.
MainFinish ==
    /\ pc = "loop"
    /\ idx = Len(promising)
    /\ pc' = "done"
    /\ UNCHANGED <<main_exc, empire_analysis, sentiment, promising, idx,
                   claude_active, cyc, ledgerVars, guardVars, regimeVars,
                   loopVars, valuation>>

(* ---------------- MedallionEngine.fit_regime_detection ----------------- *)

\* Longest price series tried.
MaxSeriesLen == 12
\* `if len(returns) < 10`
MinReturns == 10

\* Prices of a series: 100 is a positive finite price; 0 stands for a price
\* whose logarithm is not finite (zero, negative, NaN).
PriceValues == {0, 100}
PriceSeries == UNION {[1..n -> PriceValues] : n \in 0..MaxSeriesLen}

\* `returns = np.diff(np.log(prices))` and the removal of NaN and inf: the
\* return between two neighbours stays when both have a finite logarithm.
CleanReturns(prices) ==
    {i \in 1..(Len(prices) - 1) : prices[i] > 0 /\ prices[i + 1] > 0}

\* What fitting and predicting with the unseeded GaussianHMM can come to: an
\* exception, or the regime of the last hidden state (any of the three).
FitOutcomes ==
    {[kind |-> "failed", label |-> ""]}
    \cup {[kind |-> "fitted", label |-> l] : l \in Regimes}

NoFit == [path |-> "", raised |-> FALSE, exc |-> "", regime |-> "",
          states_len |-> 0]

\* `np.zeros(n)` raises ValueError for a negative n.
ZerosRaises(n) == n < 0

\* `except: return "Neutral_Choppy", ...`
\* (faulty variant: the fallback is the label that votes BUY)
FitFallback_Stable == "Stable_Growth"
FitFallback == "Neutral_Choppy"

\* fit_regime_detection: the path taken and what the caller gets.
fit_regime_detection(prices, outcome) ==
    LET returns == CleanReturns(prices)
    IN  IF Cardinality(returns) < MinReturns
        THEN IF ZerosRaises(Len(prices) - 1)
             THEN [NoFit EXCEPT !.path = "few_returns", !.raised = TRUE,
                                !.exc = "ValueError"]
             ELSE [NoFit EXCEPT !.path = "few_returns",
                                !.regime = "Stable_Growth",
                                !.states_len = Len(prices) - 1]
        ELSE IF outcome.kind = "failed"
        THEN [NoFit EXCEPT !.path = "fit_failed", !.regime = FitFallback,
                           !.states_len = Cardinality(returns)]
        ELSE [NoFit EXCEPT !.path = "fitted", !.regime = outcome.label,
                           !.states_len = Cardinality(returns)]

RegimeIdle ==
    /\ series = <<>>
    /\ hmm_model = "None"
    /\ fit = NoFit
    /\ fit_prev = NoFit

\* One call of fit_regime_detection on the series; main.py line 56 makes it
\* once per evaluation of a symbol.
FitRegimeDetection ==
    /\ \E outcome \in FitOutcomes :
        /\ fit' = fit_regime_detection(series, outcome)
        /\ hmm_model' = IF fit'.path \in {"fit_failed", "fitted"}
                        THEN "GaussianHMM" ELSE hmm_model
    /\ fit_prev' = fit
    /\ UNCHANGED <<series, ledgerVars, guardVars, cycleVars, loopVars,
                   valuation>>

(* ------------------- continuous_training.main -------------------------- *)

\* Number of completed passes tried (the value `iteration` can reach).
MaxIterations == 12

\* Exceptions a training pass can raise (subclasses of Exception).
PassExceptions == {"ConnectionError", "ValueError", "KeyError"}

LogLine(level, message, n) == [level |-> level, message |-> message, n |-> n]
LogStarted == LogLine("INFO", "Continuous Training Process Started.", 0)
LogStarting(n) == LogLine("INFO", "Starting Training Iteration", n)
LogComplete(n) == LogLine("INFO", "Iteration complete. Sleeping for 1 hour...", n)
LogError(exc) == LogLine("ERROR", "Error in continuous training loop: " \o exc, 0)

\* `except Exception as e`
\* (faulty variant: only a KeyError is caught)
CaughtByLoop_KeyErrorOnly(exc) == exc = "KeyError"
CaughtByLoop(exc) == exc \in PassExceptions

\* Lines 14-17: the start of main, up to the head of the while.
LoopIdle ==
    /\ loop_pc = "top"
    /\ iteration = 1
    /\ last_log = LogStarted
    /\ caught = ""

\* Lines 18-21: the head of the while, the log line, the call of the pass.
StartPass ==
    /\ loop_pc = "top"
    /\ loop_pc' = "running"
    /\ last_log' = LogStarting(iteration)
    /\ UNCHANGED <<iteration, caught>>

\* Line 22: hardcore_training() returned; the hour's sleep begins.
PassCompletes ==
    /\ loop_pc = "running"
    /\ loop_pc' = "sleeping"
    /\ last_log' = LogComplete(iteration)
    /\ UNCHANGED <<iteration, caught>>

\* Lines 26-28: hardcore_training() raised; the handler logs the error and
\* the minute's sleep begins.
PassFails ==
    /\ loop_pc = "running"
    /\ \E exc \in PassExceptions :
          IF CaughtByLoop(exc)
          THEN /\ loop_pc' = "cooldown"
               /\ last_log' = LogError(exc)
               /\ caught' = exc
          ELSE /\ loop_pc' = "terminated"
               /\ UNCHANGED <<last_log, caught>>
    /\ UNCHANGED iteration

\* Lines 24-25: the hour is over; `iteration += 1` and back to the head.
HourOver ==
    /\ loop_pc = "sleeping"
    /\ iteration < MaxIterations
    /\ iteration' = iteration + 1
    /\ loop_pc' = "top"
    /\ UNCHANGED <<last_log, caught>>

\* Line 28: the minute is over; back to the head with the same iteration.
CooldownOver ==
    /\ loop_pc = "cooldown"
    /\ loop_pc' = "top"
    /\ UNCHANGED <<iteration, last_log, caught>>

TrainingLoop ==
    /\ StartPass \/ PassCompletes \/ PassFails \/ HourOver \/ CooldownOver
    /\ UNCHANGED <<ledgerVars, guardVars, cycleVars, regimeVars, valuation>>

(* ------------------------- specifications ------------------------------ *)

Init == LedgerInit /\ GuardInit /\ CycleIdle /\ RegimeIdle /\ LoopIdle

\* The ledger under every sequence of execute_trade calls.
Next == ExecuteTrade

Spec == Init /\ [][Next]_vars

\* The guardrail under every sequence of check_trade calls.
GuardStart == Init /\ initial_cash = MaxCash * Unit

GuardNext == CheckTrade

GuardSpec == GuardStart /\ [][GuardNext]_vars

\* One run of main(): the set-up, the loop over the candidates, the end.
CycleStart == Init /\ initial_cash = MaxCash * Unit

CycleNext == MainSetup \/ SkipSymbol \/ EvaluateSymbol \/ MainFinish

CycleSpec == CycleStart /\ [][CycleNext]_vars

\* The regime classifier called again and again on one price series.
RegimeStart ==
    /\ LedgerInit /\ initial_cash = MaxCash * Unit
    /\ GuardInit
    /\ CycleIdle
    /\ series \in PriceSeries
    /\ hmm_model = "None"
    /\ fit = NoFit
    /\ fit_prev = NoFit
    /\ LoopIdle

RegimeNext == FitRegimeDetection

RegimeSpec == RegimeStart /\ [][RegimeNext]_vars

\* The continuous training process; the scheduler lets every sleep end and
\* every pass return or raise.
LoopStart == Init /\ initial_cash = MaxCash * Unit

LoopNext == TrainingLoop

LoopSpec == LoopStart /\ [][LoopNext]_vars

LoopFairSpec == LoopSpec /\ WF_vars(LoopNext)

\* The ledger of a trading session, valued at any moment.
ValueStart == Init /\ initial_cash = MaxCash * Unit

ValueNext == PositiveTrade \/ GetPortfolioValue

ValueSpec == ValueStart /\ [][ValueNext]_vars

\* The ledger under every sequence of buys and sells of positive size.
TradingNext == PositiveTrade

TradingSpec == Init /\ [][TradingNext]_vars

(* ============================ claims ================================== *)

\* The last execute_trade call, as the claims speak of it.
Called == clock > 0
Notional == call.quantity * call.price
HeldBefore(symbol) == symbol \in DOMAIN pre.positions
LedgerUntouched ==
    /\ purse = pre.purse
    /\ positions = pre.positions
    /\ history = pre.history
\* notional + 0.001 * notional + 0.0005 * notional <= cash, without fractions
Affordable(notional, cash) == 10015 * notional <= 10000 * cash

\* C1: a buy of quantity q > 0 at price p > 0 whose notional plus commission
\* (0.001 of the notional) plus slippage (0.0005 of the notional) does not
\* exceed the purse returns (True, "Success") and debits the purse by exactly
\* that amount.
C1_AffordableBuyDebitsPurse ==
    (/\ Called
     /\ call.side = "buy"
     /\ call.quantity > 0
     /\ call.price > 0
     /\ Affordable(Notional, pre.purse))
    => /\ ret = Success
       /\ 10000 * (pre.purse - purse) = 10015 * Notional

\* C1 witness: a buy that costs exactly the whole purse has succeeded.
C1_Witness ==
    /\ Called
    /\ call.side = "buy"
    /\ call.quantity > 0
    /\ call.price > 0
    /\ 10015 * Notional = 10000 * pre.purse
    /\ ret = Success
    /\ purse = 0

\* C2: a buy whose notional plus fees exceeds the purse returns
\* (False, "Insufficient funds") and leaves purse, positions and history as
\* they were.
C2_UnaffordableBuyRejected ==
    (/\ Called
     /\ call.side = "buy"
     /\ ~Affordable(Notional, pre.purse))
    => /\ ret = InsufficientFundsRet
       /\ LedgerUntouched

\* C2 witness: a buy whose notional alone would fit in the purse, but not its
\* notional plus fees, has been rejected.
C2_Witness ==
    /\ Called
    /\ call.side = "buy"
    /\ Notional <= pre.purse
    /\ ~Affordable(Notional, pre.purse)
    /\ ret = InsufficientFundsRet

\* C3: the purse is never negative.
C3_PurseNeverNegative == purse >= 0

\* C3 witness: after an earlier trade spent part of the cash, a buy that would
\* have overdrawn the purse was attempted.
C3_Witness ==
    /\ Called
    /\ call.side = "buy"
    /\ Notional > pre.purse
    /\ pre.purse < initial_cash
    /\ purse >= 0

\* C4: after a successful sell of q from a position of oldQty >= q, the
\* position holds oldQty - q when that is positive and is absent from the
\* positions map when oldQty - q is 0.
C4_SellReducesOrRemoves ==
    (/\ Called
     /\ call.side = "sell"
     /\ ret = Success)
    => /\ HeldBefore(call.symbol)
       /\ pre.positions[call.symbol].qty >= call.quantity
       /\ LET left == pre.positions[call.symbol].qty - call.quantity
          IN  /\ left > 0 => /\ call.symbol \in DOMAIN positions
                             /\ positions[call.symbol].qty = left
              /\ left = 0 => call.symbol \notin DOMAIN positions

\* C4 witness: a sell of the whole position has succeeded.
C4_Witness ==
    /\ Called
    /\ call.side = "sell"
    /\ call.quantity > 0
    /\ ret = Success
    /\ HeldBefore(call.symbol)
    /\ pre.positions[call.symbol].qty = call.quantity
    /\ call.symbol \notin DOMAIN positions

\* C5: every row of the positions map has qty > 0 (no zero row is retained),
\* also after a buy of quantity 0 on a symbol not yet held.
C5_NoZeroRow == \A s \in DOMAIN positions : positions[s].qty > 0

\* C6: after a successful buy of q at p into (oldQty, oldAvg), with (0, 0) for
\* an absent symbol, qty = oldQty + q and
\* avg_price = (oldQty * oldAvg + q * p) / (oldQty + q), fees excluded.
C6_BuyAveragesCost ==
    (/\ Called
     /\ call.side = "buy"
     /\ ret = Success)
    => LET oldQty == IF HeldBefore(call.symbol)
                     THEN pre.positions[call.symbol].qty ELSE 0
           oldAvg == IF HeldBefore(call.symbol)
                     THEN pre.positions[call.symbol].avg_price
                     ELSE [num |-> 0, den |-> 1]
       IN  /\ call.symbol \in DOMAIN positions
           /\ positions[call.symbol].qty = oldQty + call.quantity
           /\ positions[call.symbol].avg_price.num * oldAvg.den
                  * (oldQty + call.quantity)
              = positions[call.symbol].avg_price.den
                  * (oldQty * oldAvg.num + Notional * oldAvg.den)

\* C6 witness: 1 unit bought at 2 kroner into 1 unit held at 1 krone gives an
\* average price of 3/2 krone.
C6_Witness ==
    /\ Called
    /\ call.side = "buy"
    /\ ret = Success
    /\ call.quantity = 1
    /\ call.price = 2 * Unit
    /\ HeldBefore(call.symbol)
    /\ pre.positions[call.symbol].qty = 1
    /\ pre.positions[call.symbol].avg_price = [num |-> Unit, den |-> 1]
    /\ 2 * positions[call.symbol].avg_price.num
         = 3 * Unit * positions[call.symbol].avg_price.den

\* C7: a sell of a symbol that is absent, or held in a smaller quantity than
\* requested, returns (False, "Insufficient holdings") and leaves purse,
\* positions and history as they were.
C7_OversellRejected ==
    (/\ Called
     /\ call.side = "sell"
     /\ \/ ~HeldBefore(call.symbol)
        \/ pre.positions[call.symbol].qty < call.quantity)
    => /\ ret = InsufficientHoldingsRet
       /\ LedgerUntouched

\* C7 witness: a sell of more than the held quantity has been rejected.
C7_Witness ==
    /\ Called
    /\ call.side = "sell"
    /\ HeldBefore(call.symbol)
    /\ pre.positions[call.symbol].qty > 0
    /\ pre.positions[call.symbol].qty < call.quantity
    /\ ret = InsufficientHoldingsRet

\* C8: the history is append-only: a call that returns success appends exactly
\* one record at the end, any other call appends none, and no call changes or
\* removes a record already there.
C8_HistoryAppendOnly ==
    Called =>
        /\ Len(history) >= Len(pre.history)
        /\ SubSeq(history, 1, Len(pre.history)) = pre.history
        /\ ret = Success => Len(history) = Len(pre.history) + 1
        /\ ret # Success => Len(history) = Len(pre.history)

\* C8 witness: a second successful call has appended after an existing record.
C8_Witness ==
    /\ Called
    /\ ret = Success
    /\ Len(pre.history) = 1
    /\ Len(history) = 2
    /\ history[1] = pre.history[1]
    /\ history[2].timestamp = clock

\* C9: every execute_trade call returns (True, "Success") or (False, <named
\* rejection reason>) and never raises, in particular not for a buy of
\* quantity 0 on a symbol not yet held.
C9_AlwaysReturns ==
    Called => ret \in {Success, InsufficientFundsRet, InsufficientHoldingsRet}

\* The last check_trade call, as the claims speak of it.
GuardCalled == g_call # NoGuardCall

\* C10: check_trade rejects with the drawdown reason exactly when
\* (peak_value - portfolio_value) / peak_value, with the peak already updated,
\* is strictly greater than 10%: at peak 100000 a value of 89000 is rejected
\* and a value of exactly 90000 is not rejected for drawdown.
C10_DrawdownRejection ==
    GuardCalled =>
        /\ (g_ret.reason = DrawdownReason)
             <=> (/\ peak_value > 0
                  /\ 100 * (peak_value - g_call.portfolio_value) > 10 * peak_value)
        /\ g_ret.reason = DrawdownReason => ~g_ret.ok
        /\ (peak_value = 100000 /\ g_call.portfolio_value = 89000)
             => g_ret = [ok |-> FALSE, reason |-> DrawdownReason]
        /\ (peak_value = 100000 /\ g_call.portfolio_value = 90000)
             => g_ret.reason # DrawdownReason

\* C10 witness: at peak 100000 a call with portfolio value exactly 90000 (a
\* drawdown of exactly 10%) was not rejected for drawdown.
C10_Witness ==
    /\ GuardCalled
    /\ g_pre = 100000
    /\ peak_value = 100000
    /\ g_call.portfolio_value = 90000
    /\ g_ret.reason # DrawdownReason

\* What the last check_trade call's arguments make of each check, stated
\* without fractions.
DrawdownFails ==
    /\ peak_value > 0
    /\ 100 * (peak_value - g_call.portfolio_value) > 10 * peak_value
SizeFails == 100 * g_call.trade_cost > 5 * g_call.portfolio_value
RestrictionFails == g_call.symbol = "RESTRICTED_CO"

\* C11: when the drawdown check passes, check_trade rejects for position size
\* exactly when trade_cost > portfolio_value * 5%: with a portfolio of 100000 a
\* trade of 6000 is rejected and a trade of exactly 5000 on an unrestricted
\* symbol is accepted.
C11_SizeRejection ==
    (GuardCalled /\ ~DrawdownFails) =>
        /\ (g_ret.reason = SizeReason) <=> SizeFails
        /\ g_ret.reason = SizeReason => ~g_ret.ok
        /\ (g_call.portfolio_value = 100000 /\ g_call.trade_cost = 6000)
             => g_ret = [ok |-> FALSE, reason |-> SizeReason]
        /\ (/\ g_call.portfolio_value = 100000
            /\ g_call.trade_cost = 5000
            /\ g_call.symbol = "AAPL")
             => g_ret = [ok |-> TRUE, reason |-> ApprovedReason]

\* C11 witness: a trade of exactly 5% of a 100000 portfolio has been approved.
C11_Witness ==
    /\ GuardCalled
    /\ peak_value = 100000
    /\ g_call.portfolio_value = 100000
    /\ g_call.trade_cost = 5000
    /\ g_call.symbol = "AAPL"
    /\ g_ret.ok

\* C12: peak_value never decreases and after each call is the larger of the
\* peak before the call and the call's portfolio_value (0 before any call), so
\* it is the maximum of 0 and every portfolio_value seen; rejected calls
\* update it too.
C12_PeakIsRunningMaximum ==
    /\ peak_value >= g_pre
    /\ peak_value >= 0
    /\ ~GuardCalled => peak_value = 0
    /\ GuardCalled =>
        /\ peak_value >= g_call.portfolio_value
        /\ peak_value \in {g_pre, g_call.portfolio_value}

\* C12 witness: a call rejected for size has raised the peak.
C12_Witness ==
    /\ GuardCalled
    /\ ~g_ret.ok
    /\ g_pre > 0
    /\ g_call.portfolio_value > g_pre
    /\ peak_value = g_call.portfolio_value

\* C13: the checks are made in the order drawdown, size, restriction and the
\* first that fails gives the reason: drawdown when drawdown and size both
\* fail, size when size and restriction both fail.
C13_FirstFailingCheckWins ==
    GuardCalled =>
        /\ DrawdownFails => g_ret = [ok |-> FALSE, reason |-> DrawdownReason]
        /\ (~DrawdownFails /\ SizeFails)
             => g_ret = [ok |-> FALSE, reason |-> SizeReason]
        /\ (~DrawdownFails /\ ~SizeFails /\ RestrictionFails)
             => g_ret = [ok |-> FALSE, reason |-> RestrictedReason]

\* C13 witness: a call failing all three checks got the drawdown reason.
C13_Witness ==
    /\ GuardCalled
    /\ DrawdownFails
    /\ SizeFails
    /\ RestrictionFails
    /\ g_ret.reason = DrawdownReason

\* C14: check_trade never approves a restricted symbol; a restricted symbol
\* that passes the drawdown and size checks gets the restricted-list reason.
C14_RestrictedNeverApproved ==
    (GuardCalled /\ RestrictionFails) =>
        /\ ~g_ret.ok
        /\ (~DrawdownFails /\ ~SizeFails) => g_ret.reason = RestrictedReason

\* C14 witness: a restricted symbol passing the other checks was rejected.
C14_Witness ==
    /\ GuardCalled
    /\ RestrictionFails
    /\ ~DrawdownFails
    /\ ~SizeFails
    /\ g_call.portfolio_value > 0
    /\ g_ret = [ok |-> FALSE, reason |-> RestrictedReason]

\* The last loop iteration of main, as the claims speak of it.
\* A row with data was handled (the oracles were asked).
Evaluated == cyc.symbol # "" /\ ~cyc.skipped
\* Its decision matrix was formed.
MatrixFormed == Evaluated /\ cyc.matrix # NoMatrix
BuyCount == Cardinality({k \in DOMAIN cyc.matrix : cyc.matrix[k] = "BUY"})
\* The positions as they were when the iteration began.
HeldAtEvaluation == IF cyc.proposed THEN pre.positions ELSE positions
ElevatedVolatility ==
    /\ "volatility_regime" \in DOMAIN empire_analysis
    /\ empire_analysis.volatility_regime \in {"HIGH", "EXTREME"}

\* C15: in the decision cycle execute_trade is invoked for a proposed buy only
\* after Guardrail.check_trade was consulted for that trade and approved it;
\* a trade the guardrail rejects never mutates the ledger.
C15_GuardrailApprovesBeforeTrade ==
    (MatrixFormed /\ cyc.proposed) =>
        /\ g_call.symbol = cyc.symbol
        /\ g_call.trade_cost = cyc.price
        /\ g_ret = [ok |-> TRUE, reason |-> ApprovedReason]

\* C16: for each candidate a buy is proposed (execute_trade is reached) if and
\* only if the number of BUY votes is >= the required quorum and the symbol
\* has no open position at that moment; so a held symbol is not bought again,
\* even when it comes twice in one cycle.
C16_ProposedIffQuorumAndNotHeld ==
    MatrixFormed =>
        /\ cyc.proposed <=> (/\ BuyCount >= cyc.required_votes
                             /\ cyc.symbol \notin DOMAIN HeldAtEvaluation)
        /\ cyc.proposed => /\ Called
                           /\ call.symbol = cyc.symbol
                           /\ call.side = "buy"
                           /\ call.quantity = 1
                           /\ call.price = cyc.price
                           /\ ~HeldBefore(call.symbol)
        /\ (BuyCount = 2 /\ cyc.symbol \notin DOMAIN HeldAtEvaluation)
             => (cyc.proposed <=> cyc.required_votes = 2)

\* C16 witness: a symbol that comes a second time, with enough BUY votes, is
\* held from the first time and is not proposed again.
C16_Witness ==
    /\ MatrixFormed
    /\ idx = 2
    /\ promising[1] = promising[2]
    /\ BuyCount >= cyc.required_votes
    /\ cyc.symbol \in DOMAIN positions
    /\ ~cyc.proposed

\* C17: the required quorum of every symbol of a cycle is 3 when the
\* volatility regime is HIGH or EXTREME and 2 for every other value, so a
\* trade proposed under elevated volatility has at least 3 BUY votes and
\* would be proposed under any other regime too. (Without the
\* volatility_regime key main raises before its loop: no symbol is evaluated.)
C17_QuorumByVolatility ==
    /\ MatrixFormed =>
        /\ ElevatedVolatility => cyc.required_votes = 3
        /\ ~ElevatedVolatility => cyc.required_votes = 2
        /\ cyc.proposed => BuyCount >= 2
        /\ (cyc.proposed /\ ElevatedVolatility) => BuyCount >= 3
    /\ (pc # "start" /\ "volatility_regime" \notin DOMAIN empire_analysis)
         => (pc = "raised" /\ idx = 0)

\* C17 witness: under the EXTREME regime a symbol not held, with two BUY
\* votes, is not proposed.
C17_Witness ==
    /\ MatrixFormed
    /\ empire_analysis.volatility_regime = "EXTREME"
    /\ BuyCount = 2
    /\ cyc.symbol \notin DOMAIN positions
    /\ ~cyc.proposed

\* C18: the trigger of every proposed trade is chosen by priority: the regime
\* trigger when the Medallion vote is BUY, whatever the Claude vote; otherwise
\* the sentiment trigger when the Claude vote is BUY; otherwise the
\* majority-consensus trigger.
C18_TriggerByPriority ==
    (MatrixFormed /\ cyc.proposed) =>
        /\ call.trigger_strategy = cyc.trigger
        /\ cyc.matrix.Medallion = "BUY"
             => cyc.trigger = "Medallion Regime-Trigger"
        /\ (cyc.matrix.Medallion # "BUY" /\ cyc.matrix.Claude = "BUY")
             => cyc.trigger = "Claude Sentiment-Trigger"
        /\ (cyc.matrix.Medallion # "BUY" /\ cyc.matrix.Claude # "BUY")
             => cyc.trigger = "Konsensus Flertall"

\* C18 witness: with the Medallion and Claude votes both BUY the trade was
\* executed with the regime trigger.
C18_Witness ==
    /\ MatrixFormed
    /\ cyc.proposed
    /\ cyc.matrix.Medallion = "BUY"
    /\ cyc.matrix.Claude = "BUY"
    /\ ret = Success
    /\ history[Len(history)].trigger = "Medallion Regime-Trigger"

\* C19: for every symbol evaluated the decision matrix has exactly the keys
\* Claude, Medallion, Alpha and Gamma and every value is BUY, SELL or HOLD,
\* also when the LLM oracle is unreachable, fails, or answers with JSON whose
\* action is missing or another string.
C19_MatrixOfFourVotes ==
    Evaluated =>
        /\ pc # "raised"
        /\ DOMAIN cyc.matrix = {"Claude", "Medallion", "Alpha", "Gamma"}
        /\ \A k \in DOMAIN cyc.matrix : cyc.matrix[k] \in {"BUY", "SELL", "HOLD"}

\* C20: analyze_market_state does not raise because the oracle is
\* unavailable: when the connectivity check fails, or the inference request or
\* the decoding of its reply fails, it returns the heuristic result, whose
\* action is BUY for sentiment_score > 0.05, SELL for < -0.05, else HOLD.
OracleUnavailable == cyc.path \in {"offline", "request_failed", "parse_failed"}
C20_OracleFallsBackToHeuristic ==
    (Evaluated /\ OracleUnavailable) =>
        /\ pc # "raised"
        /\ cyc.claude_dec.kind = "object"
        /\ DOMAIN cyc.claude_dec.fields = {"confidence", "action", "reasoning"}
        /\ cyc.claude_dec.fields.action =
             IF 100 * sentiment.num > 5 * sentiment.den THEN "BUY"
             ELSE IF 100 * sentiment.num < -5 * sentiment.den THEN "SELL"
             ELSE "HOLD"
        /\ cyc.matrix.Claude = cyc.claude_dec.fields.action
        /\ cyc.path = "offline" <=> ~claude_active

\* C20 witness: the inference request failed with the engine active and a
\* sentiment of 0.06, and the heuristic answered BUY.
C20_Witness ==
    /\ Evaluated
    /\ cyc.path = "request_failed"
    /\ claude_active
    /\ sentiment = [num |-> 3, den |-> 50]
    /\ cyc.claude_dec.fields.action = "BUY"

\* The last fit_regime_detection call, as the claims speak of it.
FitCalled == fit # NoFit
TooFewReturns == Cardinality(CleanReturns(series)) < 10

\* C21: with fewer than 10 finite log returns after cleaning,
\* fit_regime_detection returns the label Stable_Growth and a state sequence
\* of length 0, for a price series of every length.
C21_FewReturnsStableAndEmpty ==
    (FitCalled /\ TooFewReturns) =>
        /\ ~fit.raised
        /\ fit.regime = "Stable_Growth"
        /\ fit.states_len = 0

\* C22: with at least 10 usable returns, a failure of the HMM fit or of the
\* prediction does not propagate: the label returned is Neutral_Choppy, and
\* the regime vote main derives from it is HOLD, not BUY.
C22_FitFailureIsNeutral ==
    (FitCalled /\ ~TooFewReturns /\ fit.path # "fitted") =>
        /\ fit.path = "fit_failed"
        /\ ~fit.raised
        /\ fit.regime = "Neutral_Choppy"
        /\ MedallionVote(fit.regime) = "HOLD"
        /\ MedallionVote(fit.regime) # "BUY"

\* C22 witness: a series of 11 positive prices (10 returns) whose fit failed.
C22_Witness ==
    /\ Len(series) = 11
    /\ Cardinality(CleanReturns(series)) = 10
    /\ fit.path = "fit_failed"
    /\ fit.regime = "Neutral_Choppy"
    /\ hmm_model = "GaussianHMM"

\* C23: evaluating a symbol again with identical inputs gives the same
\* Medallion entry of the decision matrix and, for the same entries of the
\* other oracles, the same matrix and the same trigger attribution.
C23_RerunGivesSameMatrix ==
    (fit_prev # NoFit /\ ~fit_prev.raised /\ ~fit.raised) =>
        \A claude \in Votes, alpha \in AlphaVotes, gamma \in GammaVotes :
            LET first == DecisionMatrix(claude, MedallionVote(fit_prev.regime),
                                        alpha, gamma)
                again == DecisionMatrix(claude, MedallionVote(fit.regime),
                                        alpha, gamma)
            IN  /\ first.Medallion = again.Medallion
                /\ first = again
                /\ Trigger(first) = Trigger(again)

\* C24: in the continuous training loop a failure inside a pass never ends
\* the loop: the exception is caught and logged, the cool-down follows, the
\* loop returns to its head, and (under fairness) another pass is started.
C24_FailedPassNeverEndsLoop ==
    /\ [](loop_pc # "terminated")
    /\ [](loop_pc = "cooldown" =>
            (caught \in PassExceptions /\ last_log = LogError(caught)))
    /\ [][(loop_pc = "running" /\ loop_pc' # "sleeping") =>
            loop_pc' = "cooldown"]_vars
    /\ [][loop_pc = "cooldown" => (loop_pc' = "top" /\ iteration' = iteration)]_vars
    /\ (loop_pc = "cooldown") ~> (loop_pc = "running")

\* C24 witness: after a caught failure a pass is running again.
C24_Witness ==
    /\ caught # ""
    /\ loop_pc = "running"
    /\ last_log = LogStarting(iteration)

\* C25: once check_trade has rejected a call for exceeded drawdown, no later
\* check_trade call on the same guardrail is approved; in particular the call
\* that follows the rejection is not, whatever it passes.
C25_DrawdownRejectionHalts ==
    [][(g_ret = [ok |-> FALSE, reason |-> DrawdownReason]) => ~g_ret'.ok]_vars

\* C26: the horizon of a position comes from the trigger of the buy that
\* opened it: short for the regime trigger, long for the sentiment trigger,
\* medium otherwise; so a position the cycle opened is short-horizon whenever
\* the Medallion vote was BUY and long-horizon only when the Medallion vote
\* was not BUY and the Claude vote was.
C26_HorizonFromTrigger ==
    \A s \in DOMAIN positions :
        LET row == positions[s]
        IN  /\ row.trigger_strategy = "Medallion Regime-Trigger"
                => row.expected_horizon = "Kort (1-5 dager)"
            /\ row.trigger_strategy = "Claude Sentiment-Trigger"
                => row.expected_horizon = "Lang (3-6 mnd)"
            /\ row.trigger_strategy \notin
                  {"Medallion Regime-Trigger", "Claude Sentiment-Trigger"}
                => row.expected_horizon = "Mellom (1-4 uker)"
            /\ row.decision_matrix.Medallion = "BUY"
                => row.expected_horizon = "Kort (1-5 dager)"
            /\ row.expected_horizon = "Lang (3-6 mnd)"
                => /\ row.decision_matrix.Medallion # "BUY"
                   /\ row.decision_matrix.Claude = "BUY"

\* C26 witness: a position opened with the Medallion and the Claude vote both
\* BUY has the short horizon.
C26_Witness ==
    \E s \in DOMAIN positions :
        /\ positions[s].decision_matrix.Medallion = "BUY"
        /\ positions[s].decision_matrix.Claude = "BUY"
        /\ positions[s].expected_horizon = "Kort (1-5 dager)"
        /\ positions[s].qty = 1

\* What a symbol is worth in the last valuation, stated without the model's
\* operators: quantity times the map's price, or times avg_price when the
\* symbol is not in the map.
WorthNum(s) ==
    IF s \notin DOMAIN positions THEN 0
    ELSE IF s \in DOMAIN valuation.current_prices
    THEN positions[s].qty * valuation.current_prices[s] * positions[s].avg_price.den
    ELSE positions[s].qty * positions[s].avg_price.num
WorthDen(s) == IF s \notin DOMAIN positions THEN 1 ELSE positions[s].avg_price.den

\* C27: get_portfolio_value(current_prices) returns purse plus, over the open
\* positions, qty times the symbol's price in current_prices (avg_price when
\* the symbol is missing from the map), and changes neither the ledger nor
\* the price map.
C27_PortfolioValueIsPure ==
    /\ [](valuation.called =>
            /\ valuation.value.num * WorthDen("AAPL") * WorthDen("MSFT")
                 = valuation.value.den *
                     (purse * WorthDen("AAPL") * WorthDen("MSFT")
                      + WorthNum("AAPL") * WorthDen("MSFT")
                      + WorthNum("MSFT") * WorthDen("AAPL"))
            /\ valuation.prices_after = valuation.current_prices)
    /\ [][(valuation'.called /\ valuation' # valuation) =>
            UNCHANGED <<purse, positions, history, total_commission,
                        total_slippage, initial_cash>>]_vars

\* C27 witness: two positions are valued, AAPL at the map's 3 kroner and MSFT,
\* missing from the map, at its avg_price of 1 krone.
C27_Witness ==
    /\ valuation.called
    /\ DOMAIN positions = {"AAPL", "MSFT"}
    /\ DOMAIN valuation.current_prices = {"AAPL"}
    /\ valuation.current_prices["AAPL"] = 3 * Unit
    /\ positions["MSFT"].avg_price.num = Unit * positions["MSFT"].avg_price.den
    /\ valuation.value = RatOfInt(purse + 4 * Unit)

\* C28: every record of the history has side buy or sell; a call with any
\* other side does not report success, appends no record and leaves the
\* ledger as it was.
C28_OnlyBuyAndSellRecorded ==
    /\ \A i \in 1..Len(history) : history[i].side \in {"buy", "sell"}
    /\ (Called /\ call.side \notin {"buy", "sell"}) =>
          /\ ~ret.ok
          /\ LedgerUntouched
          /\ total_commission = pre.total_commission
          /\ total_slippage = pre.total_slippage

RECURSIVE SumCommission(_)
SumCommission(hist) ==
    IF hist = <<>> THEN 0 ELSE Head(hist).commission + SumCommission(Tail(hist))
RECURSIVE SumSlippage(_)
SumSlippage(hist) ==
    IF hist = <<>> THEN 0 ELSE Head(hist).slippage + SumSlippage(Tail(hist))

\* C29: after any sequence of execute_trade calls, rejected ones included,
\* total_commission is the sum of the commission fields of the history and
\* total_slippage the sum of its slippage fields; a call that returns
\* (False, ...) leaves both accumulators as they were.
C29_AccumulatorsMatchHistory ==
    /\ total_commission = SumCommission(history)
    /\ total_slippage = SumSlippage(history)
    /\ (Called /\ ~ret.raised /\ ~ret.ok) =>
          /\ total_commission = pre.total_commission
          /\ total_slippage = pre.total_slippage

\* Cash the history accounts for, and the net quantity it holds of a symbol.
RECURSIVE CashFlow(_)
CashFlow(hist) ==
    IF hist = <<>> THEN 0
    ELSE LET r == Head(hist)
         IN  (IF r.side = "buy" THEN -(r.qty * r.price + r.total_fees)
              ELSE r.qty * r.price - r.total_fees) + CashFlow(Tail(hist))
RECURSIVE NetQty(_, _)
NetQty(hist, s) ==
    IF hist = <<>> THEN 0
    ELSE LET r == Head(hist)
         IN  (IF r.symbol # s THEN 0
              ELSE IF r.side = "buy" THEN r.qty ELSE -r.qty)
             + NetQty(Tail(hist), s)

\* C30: after any sequence of buys and sells of positive quantity and price
\* the purse is initial_cash minus what the buy records cost plus what the
\* sell records brought in; every symbol's held quantity is bought minus sold
\* and the symbol is in positions exactly when that is positive; a partial
\* sell leaves avg_price as it was.
C30_LedgerMatchesHistory ==
    /\ purse = initial_cash + CashFlow(history)
    /\ \A s \in Symbols :
          /\ s \in DOMAIN positions <=> NetQty(history, s) > 0
          /\ s \in DOMAIN positions => positions[s].qty = NetQty(history, s)
    /\ (/\ Called
        /\ call.side = "sell"
        /\ ret = Success
        /\ call.symbol \in DOMAIN positions)
       => positions[call.symbol].avg_price = pre.positions[call.symbol].avg_price

\* C30 witness: after a buy of 2 a sell of 1 has left a position of 1 at the
\* same avg_price, with the purse matching the two records.
C30_Witness ==
    /\ Len(history) = 2
    /\ call.side = "sell"
    /\ ret = Success
    /\ call.symbol \in DOMAIN positions
    /\ positions[call.symbol].qty = 1
    /\ pre.positions[call.symbol].qty = 2
    /\ call.price # history[1].price
    /\ purse = initial_cash + CashFlow(history)

====
